---- MODULE Spec2Model ----
(***************************************************************************)
(* QUIC-LB compatible connection ID codec of picoquic (picoquic_lb.c):     *)
(* configuration parsing, installation on a QUIC context, CID generation,  *)
(* CID verification (server ID recovery) and release.                      *)
(*                                                                         *)
(* Octets are naturals 0..255.  A uint64_t is kept as its eight octets,    *)
(* most significant first (index 1), so that shifts by 8 and truncation    *)
(* to 64 bits are exact.  Arrays are functions indexed from 0 as in C.     *)
(***************************************************************************)
EXTENDS Integers, Sequences, FiniteSets, TLC

(***************************************************************************)
(* Octet arithmetic                                                        *)
(***************************************************************************)

RECURSIVE XorBits(_, _, _)
XorBits(a, b, n) ==
    IF n = 0 THEN 0
    ELSE ((a + b) % 2) + 2 * XorBits(a \div 2, b \div 2, n - 1)

\* a ^ b on uint8_t
Xor8(a, b) == XorBits(a, b, 8)

\* the eight octets of a uint64_t, most significant first
U64(b1, b2, b3, b4, b5, b6, b7, b8) == <<b1, b2, b3, b4, b5, b6, b7, b8>>

U64Zero == U64(0, 0, 0, 0, 0, 0, 0, 0)

UINT64_MAX == U64(255, 255, 255, 255, 255, 255, 255, 255)

\* x <<= 8; x += b   (b an octet: the low octet of x << 8 is zero, no carry)
Shl8Add(x, b) == <<x[2], x[3], x[4], x[5], x[6], x[7], x[8], b>>

\* x >>= 8
Shr8(x) == <<0, x[1], x[2], x[3], x[4], x[5], x[6], x[7]>>

\* (uint8_t)x
LowOctet(x) == x[8]

(***************************************************************************)
(* AES-128-ECB on one 16 octet block (tls_api.c, outside this file).       *)
(* Modelled as a keyed permutation of the 16-octet blocks: the octets are  *)
(* moved to other positions, whitened with the key and sent through an     *)
(* affine octet permutation.  AesDecryptBlock undoes AesEncryptBlock.      *)
(***************************************************************************)

AesPos(i) == (5 * i + 3) % 16

AesPosInv(j) == CHOOSE i \in 0..15 : AesPos(i) = j

AesEncryptBlock(key, block) ==
    [i \in 0..15 |-> (167 * Xor8(block[AesPos(i)], key[i]) + 13 + i) % 256]

AesDecryptBlock(key, block) ==
    [j \in 0..15 |->
        LET i == AesPosInv(j)
        IN  Xor8((23 * (block[i] + 512 - 13 - i)) % 256, key[i])]

\* picoquic_aes128_ecb_create(is_enc, key): the handle's content
picoquic_aes128_ecb_create(is_enc, key) == [is_enc |-> is_enc, key |-> key]

\* picoquic_aes128_ecb_encrypt(handle, output, input, 16): the output block
picoquic_aes128_ecb_encrypt(handle, input) ==
    IF handle.is_enc = 1 THEN AesEncryptBlock(handle.key, input)
    ELSE AesDecryptBlock(handle.key, input)

RECURSIVE OrBits(_, _, _)
OrBits(a, b, n) ==
    IF n = 0 THEN 0
    ELSE (IF a % 2 = 1 \/ b % 2 = 1 THEN 1 ELSE 0)
         + 2 * OrBits(a \div 2, b \div 2, n - 1)

\* (uint8_t)(a | b)
Or8(a, b) == OrBits(a % 256, b % 256, 8)

(***************************************************************************)
(* Connection IDs and the load balancer context                            *)
(***************************************************************************)

\* pointers are naturals; NULL is 0
NULL == 0

PICOQUIC_CONNECTION_ID_MAX_SIZE == 20

\* sizeof(lb_ctx->server_id)
ServerIdSize == 16

picoquic_load_balancer_cid_clear == "clear"

picoquic_load_balancer_cid_stream_cipher == "stream_cipher"

picoquic_load_balancer_cid_block_cipher == "block_cipher"

\* memcpy(dst + dst_off, src + src_off, n) on arrays indexed from 0
Memcpy(dst, dst_off, src, src_off, n) ==
    [i \in DOMAIN dst |->
        IF i >= dst_off /\ i < dst_off + n THEN src[src_off + (i - dst_off)]
        ELSE dst[i]]

(***************************************************************************)
(* CID generation                                                          *)
(***************************************************************************)

\* the caller's top two bits are not cleared
picoquic_lb_compat_cid_generate_first_byte_no_mask(quic, lb_ctx, id) ==
    IF lb_ctx.first_byte_encodes_length = 1
    THEN [id EXCEPT ![0] = Or8(lb_ctx.rotation_bits * 64,
                               (quic.local_cnxid_length % 256) - 1)]
    ELSE [id EXCEPT ![0] = Or8(id[0], lb_ctx.rotation_bits * 64)]

picoquic_lb_compat_cid_generate_first_byte(quic, lb_ctx, id) ==
    IF lb_ctx.first_byte_encodes_length = 1
    THEN [id EXCEPT ![0] = Or8(lb_ctx.rotation_bits * 64,
                               (quic.local_cnxid_length % 256) - 1)]
    ELSE [id EXCEPT ![0] = Or8(id[0] % 64, lb_ctx.rotation_bits * 64)]

\* the whole server_id array is copied, not its first server_id_length octets
picoquic_lb_compat_cid_generate_clear_whole_array(quic, lb_ctx, id) ==
    Memcpy(picoquic_lb_compat_cid_generate_first_byte(quic, lb_ctx, id), 1,
           lb_ctx.server_id, 0, ServerIdSize)

picoquic_lb_compat_cid_generate_clear(quic, lb_ctx, id) ==
    Memcpy(picoquic_lb_compat_cid_generate_first_byte(quic, lb_ctx, id), 1,
           lb_ctx.server_id, 0, lb_ctx.server_id_length)

\* One pass of the stream cipher: the mask is the encryption of the nonce
\* padded with zeroes to 16 octets; it is XORed into the target octets.
picoquic_lb_compat_cid_one_pass_stream(enc_ctx, id, nonce_off, nonce_length, target_off, target_length) ==
    LET zero == [i \in 0..15 |-> 0]
        mask0 == Memcpy(zero, 0, id, nonce_off, nonce_length)
        mask == picoquic_aes128_ecb_encrypt(enc_ctx, mask0)
    IN  [i \in DOMAIN id |->
            IF i >= target_off /\ i < target_off + target_length
            THEN Xor8(id[i], mask[i - target_off])
            ELSE id[i]]

picoquic_lb_compat_cid_generate_stream_cipher(quic, lb_ctx, aes, id) ==
    LET id_offset == 1 + lb_ctx.nonce_length
        enc == aes[lb_ctx.cid_encryption_context]
        id0 == picoquic_lb_compat_cid_generate_first_byte(quic, lb_ctx, id)
        id1 == Memcpy(id0, id_offset, lb_ctx.server_id, 0, lb_ctx.server_id_length)
        \* First pass -- obtain intermediate server ID
        id2 == picoquic_lb_compat_cid_one_pass_stream(enc, id1, 1, lb_ctx.nonce_length,
                   id_offset, lb_ctx.server_id_length)
        \* Second pass -- obtain encrypted nonce
        id3 == picoquic_lb_compat_cid_one_pass_stream(enc, id2, id_offset,
                   lb_ctx.server_id_length, 1, lb_ctx.nonce_length)
        \* Third pass -- obtain encrypted server-id
    IN  picoquic_lb_compat_cid_one_pass_stream(enc, id3, 1, lb_ctx.nonce_length,
            id_offset, lb_ctx.server_id_length)

picoquic_lb_compat_cid_generate_block_cipher(quic, lb_ctx, aes, id) ==
    LET id0 == picoquic_lb_compat_cid_generate_first_byte(quic, lb_ctx, id)
        id1 == Memcpy(id0, 1, lb_ctx.server_id, 0, lb_ctx.server_id_length)
        \* encrypt 16 bytes
        block == picoquic_aes128_ecb_encrypt(aes[lb_ctx.cid_encryption_context],
                     [i \in 0..15 |-> id1[i + 1]])
    IN  Memcpy(id1, 1, block, 0, 16)

\* The returned connection ID: id_len is not written, only octets of id.
picoquic_lb_compat_cid_generate(quic, lb_ctx, aes, cnx_id) ==
    [cnx_id EXCEPT !.id =
        CASE lb_ctx.method = picoquic_load_balancer_cid_clear ->
                 picoquic_lb_compat_cid_generate_clear(quic, lb_ctx, @)
          [] lb_ctx.method = picoquic_load_balancer_cid_stream_cipher ->
                 picoquic_lb_compat_cid_generate_stream_cipher(quic, lb_ctx, aes, @)
          [] lb_ctx.method = picoquic_load_balancer_cid_block_cipher ->
                 picoquic_lb_compat_cid_generate_block_cipher(quic, lb_ctx, aes, @)
          [] OTHER -> @]

(***************************************************************************)
(* CID verification                                                        *)
(***************************************************************************)

\* for (i = 0; i < n; i++) { s_id64 <<= 8; s_id64 += bytes[off + i]; }
RECURSIVE DecodeServerId(_, _, _, _, _)
DecodeServerId(bytes, off, n, i, s_id64) ==
    IF i >= n THEN s_id64
    ELSE DecodeServerId(bytes, off, n, i + 1, Shl8Add(s_id64, bytes[off + i]))

\* the server ID is read from the first octet on
picoquic_lb_compat_cid_verify_clear_from_first(lb_ctx, cnx_id) ==
    DecodeServerId(cnx_id.id, 0, lb_ctx.server_id_length, 0, U64Zero)

picoquic_lb_compat_cid_verify_clear(lb_ctx, cnx_id) ==
    DecodeServerId(cnx_id.id, 1, lb_ctx.server_id_length, 0, U64Zero)

\* the third pass is left out
picoquic_lb_compat_cid_verify_stream_cipher_two_passes(lb_ctx, aes, cnx_id) ==
    LET id_offset == 1 + lb_ctx.nonce_length
        enc == aes[lb_ctx.cid_encryption_context]
        t1 == picoquic_lb_compat_cid_one_pass_stream(enc, cnx_id.id, 1,
                  lb_ctx.nonce_length, id_offset, lb_ctx.server_id_length)
        t2 == picoquic_lb_compat_cid_one_pass_stream(enc, t1, id_offset,
                  lb_ctx.server_id_length, 1, lb_ctx.nonce_length)
    IN  DecodeServerId(t2, id_offset, lb_ctx.server_id_length, 0, U64Zero)

picoquic_lb_compat_cid_verify_stream_cipher(lb_ctx, aes, cnx_id) ==
    LET id_offset == 1 + lb_ctx.nonce_length
        enc == aes[lb_ctx.cid_encryption_context]
        target == cnx_id.id
        \* First pass -- obtain intermediate server ID
        t1 == picoquic_lb_compat_cid_one_pass_stream(enc, target, 1, lb_ctx.nonce_length,
                  id_offset, lb_ctx.server_id_length)
        \* Second pass -- obtain nonce
        t2 == picoquic_lb_compat_cid_one_pass_stream(enc, t1, id_offset,
                  lb_ctx.server_id_length, 1, lb_ctx.nonce_length)
        \* First pass -- obtain server-id
        t3 == picoquic_lb_compat_cid_one_pass_stream(enc, t2, 1, lb_ctx.nonce_length,
                  id_offset, lb_ctx.server_id_length)
    IN  DecodeServerId(t3, id_offset, lb_ctx.server_id_length, 0, U64Zero)

picoquic_lb_compat_cid_verify_block_cipher(lb_ctx, aes, cnx_id) ==
    LET decoded == picoquic_aes128_ecb_encrypt(aes[lb_ctx.cid_decryption_context],
                       [i \in 0..15 |-> cnx_id.id[i + 1]])
    IN  DecodeServerId(decoded, 0, lb_ctx.server_id_length, 0, U64Zero)

picoquic_lb_compat_cid_verify(lb_ctx, aes, cnx_id) ==
    IF cnx_id.id_len # lb_ctx.connection_id_length THEN UINT64_MAX
    ELSE CASE lb_ctx.method = picoquic_load_balancer_cid_clear ->
                  picoquic_lb_compat_cid_verify_clear(lb_ctx, cnx_id)
           [] lb_ctx.method = picoquic_load_balancer_cid_stream_cipher ->
                  picoquic_lb_compat_cid_verify_stream_cipher(lb_ctx, aes, cnx_id)
           [] lb_ctx.method = picoquic_load_balancer_cid_block_cipher ->
                  picoquic_lb_compat_cid_verify_block_cipher(lb_ctx, aes, cnx_id)
           [] OTHER -> UINT64_MAX

(***************************************************************************)
(* The heap: live contexts and live AES handles, by address                *)
(***************************************************************************)

\* number of heap addresses malloc can hand out
HeapSize == 4

HeapAddr == 1..HeapSize

\* address of callback data owned by another CID generator of the host
OtherCbData == HeapSize + 1

picoquic_lb_compat_cid_generate_fn == "picoquic_lb_compat_cid_generate"

other_cnx_id_callback_fn == "other_cnx_id_callback"

NULL_fn == "NULL"

\* malloc / picoquic_aes128_ecb_create: the lowest free address, or NULL when
\* the allocation fails (ok = FALSE) or no address is free
Alloc(live, ok) ==
    LET free == HeapAddr \ live
    IN  IF ok /\ free # {} THEN CHOOSE a \in free : \A b \in free : a <= b
        ELSE NULL

Put(mem, a, v) == [x \in DOMAIN mem \cup {a} |-> IF x = a THEN v ELSE mem[x]]

\* free / picoquic_aes128_ecb_free; freeing a block that is not live leaves
\* the mark of a corrupted heap at address NULL, which malloc never returns
Free(mem, a) ==
    IF a \in DOMAIN mem THEN [x \in DOMAIN mem \ {a} |-> mem[x]]
    ELSE Put(mem, NULL, "freed twice")

(***************************************************************************)
(* Installation: picoquic_lb_compat_cid_config                             *)
(***************************************************************************)

\* a registered callback is not tested
HostStateRefuses_no_callback_test(quic, lb_config) ==
    quic.cnx_list /\ quic.local_cnxid_length # lb_config.connection_id_length

\* The two tests on the state of the QUIC context; TRUE: refuse
HostStateRefuses(quic, lb_config) ==
    \/ quic.cnx_list /\ quic.local_cnxid_length # lb_config.connection_id_length
    \/ quic.cnx_id_callback_fn # NULL_fn /\ quic.cnx_id_callback_ctx # NULL

\* Verify that the method is supported and the parameters are compatible
ConfigIsValid(lb_config) ==
    IF lb_config.connection_id_length > PICOQUIC_CONNECTION_ID_MAX_SIZE THEN FALSE
    ELSE CASE lb_config.method = picoquic_load_balancer_cid_clear ->
                  ~ (lb_config.server_id_length + 1 > lb_config.connection_id_length)
           [] lb_config.method = picoquic_load_balancer_cid_stream_cipher ->
                  ~ (\/ lb_config.nonce_length < 8
                     \/ lb_config.nonce_length > 16
                     \/ lb_config.nonce_length + lb_config.server_id_length + 1
                            > lb_config.connection_id_length)
           [] lb_config.method = picoquic_load_balancer_cid_block_cipher ->
                  ~ (\/ lb_config.connection_id_length < 17
                     \/ lb_config.server_id_length > 15)
           [] OTHER -> FALSE

\* for (i = 0; i < len; i++) { j = len - i - 1; server_id[j] = (uint8_t)s_id64;
\*                             s_id64 >>= 8; }
RECURSIVE SerializeServerId(_, _, _, _)
SerializeServerId(len, i, s_id64, server_id) ==
    IF i >= len THEN [server_id |-> server_id, s_id64 |-> s_id64]
    ELSE SerializeServerId(len, i + 1, Shr8(s_id64),
             [server_id EXCEPT ![len - i - 1] = LowOctet(s_id64)])

\* The context after memset, the copy of the configuration and the
\* serialisation loop, and what is left of s_id64
NewContext(lb_config) ==
    LET ser == SerializeServerId(lb_config.server_id_length, 0, lb_config.server_id64,
                   [j \in 0..(ServerIdSize - 1) |-> 0])
    IN  [lb_ctx |->
            [method |-> lb_config.method,
             rotation_bits |-> lb_config.rotation_bits,
             first_byte_encodes_length |-> lb_config.first_byte_encodes_length,
             server_id_length |-> lb_config.server_id_length,
             nonce_length |-> lb_config.nonce_length,
             connection_id_length |-> lb_config.connection_id_length,
             server_id64 |-> lb_config.server_id64,
             server_id |-> ser.server_id,
             cid_encryption_context |-> NULL,
             cid_decryption_context |-> NULL],
         s_id64 |-> ser.s_id64]

\* the encryption handle is not released when the decryption handle fails
CreateEncryptionContexts_leak(lb_config, lb_ctx, aes, live, okEnc, okDec) ==
    IF lb_config.method \in {picoquic_load_balancer_cid_stream_cipher,
                             picoquic_load_balancer_cid_block_cipher}
    THEN LET e == Alloc(live, okEnc)
             aes1 == Put(aes, e, picoquic_aes128_ecb_create(1, lb_config.cid_encryption_key))
         IN  IF e = NULL
             THEN [ret |-> -1, path |-> "enc_create", lb_ctx |-> lb_ctx, aes |-> aes]
             ELSE IF lb_config.method = picoquic_load_balancer_cid_block_cipher
             THEN LET d == Alloc(live \cup {e}, okDec)
                  IN  IF d = NULL
                      THEN [ret |-> -1, path |-> "dec_create",
                            lb_ctx |-> [lb_ctx EXCEPT !.cid_encryption_context = NULL],
                            aes |-> aes1]
                      ELSE [ret |-> 0, path |-> "installed",
                            lb_ctx |-> [lb_ctx EXCEPT !.cid_encryption_context = e,
                                                      !.cid_decryption_context = d],
                            aes |-> Put(aes1, d,
                                picoquic_aes128_ecb_create(0, lb_config.cid_encryption_key))]
             ELSE [ret |-> 0, path |-> "installed",
                   lb_ctx |-> [lb_ctx EXCEPT !.cid_encryption_context = e],
                   aes |-> aes1]
    ELSE [ret |-> 0, path |-> "installed", lb_ctx |-> lb_ctx, aes |-> aes]

\* the decryption handle is created for the stream cipher too
CreateEncryptionContexts_dec_always(lb_config, lb_ctx, aes, live, okEnc, okDec) ==
    IF lb_config.method \in {picoquic_load_balancer_cid_stream_cipher,
                             picoquic_load_balancer_cid_block_cipher}
    THEN LET e == Alloc(live, okEnc)
             aes1 == Put(aes, e, picoquic_aes128_ecb_create(1, lb_config.cid_encryption_key))
             d == Alloc(live \cup {e}, okDec)
         IN  IF e = NULL
             THEN [ret |-> -1, path |-> "enc_create", lb_ctx |-> lb_ctx, aes |-> aes]
             ELSE IF d = NULL
             THEN [ret |-> -1, path |-> "dec_create",
                   lb_ctx |-> [lb_ctx EXCEPT !.cid_encryption_context = NULL],
                   aes |-> Free(aes1, e)]
             ELSE [ret |-> 0, path |-> "installed",
                   lb_ctx |-> [lb_ctx EXCEPT !.cid_encryption_context = e,
                                             !.cid_decryption_context = d],
                   aes |-> Put(aes1, d,
                       picoquic_aes128_ecb_create(0, lb_config.cid_encryption_key))]
    ELSE [ret |-> 0, path |-> "installed", lb_ctx |-> lb_ctx, aes |-> aes]

\* Creation of the AES handles of a freshly allocated context, with the
\* release of the encryption handle when the decryption handle fails
CreateEncryptionContexts(lb_config, lb_ctx, aes, live, okEnc, okDec) ==
    IF lb_config.method \in {picoquic_load_balancer_cid_stream_cipher,
                             picoquic_load_balancer_cid_block_cipher}
    THEN LET e == Alloc(live, okEnc)
             aes1 == Put(aes, e, picoquic_aes128_ecb_create(1, lb_config.cid_encryption_key))
         IN  IF e = NULL
             THEN [ret |-> -1, path |-> "enc_create", lb_ctx |-> lb_ctx, aes |-> aes]
             ELSE IF lb_config.method = picoquic_load_balancer_cid_block_cipher
             THEN LET d == Alloc(live \cup {e}, okDec)
                  IN  IF d = NULL
                      THEN [ret |-> -1, path |-> "dec_create",
                            lb_ctx |-> [lb_ctx EXCEPT !.cid_encryption_context = NULL],
                            aes |-> Free(aes1, e)]
                      ELSE [ret |-> 0, path |-> "installed",
                            lb_ctx |-> [lb_ctx EXCEPT !.cid_encryption_context = e,
                                                      !.cid_decryption_context = d],
                            aes |-> Put(aes1, d,
                                picoquic_aes128_ecb_create(0, lb_config.cid_encryption_key))]
             ELSE [ret |-> 0, path |-> "installed",
                   lb_ctx |-> [lb_ctx EXCEPT !.cid_encryption_context = e],
                   aes |-> aes1]
    ELSE [ret |-> 0, path |-> "installed", lb_ctx |-> lb_ctx, aes |-> aes]

\* The whole call: the return value, the path taken, and the QUIC context
\* and the heap it leaves
picoquic_lb_compat_cid_config(quic, ctxs, aes, lb_config, okCtx, okEnc, okDec) ==
    LET same(path) == [ret |-> -1, path |-> path, quic |-> quic,
                       ctx_mem |-> ctxs, aes_mem |-> aes]
        live == DOMAIN ctxs \cup DOMAIN aes
        p == Alloc(live, okCtx)
        new == NewContext(lb_config)
        made == CreateEncryptionContexts(lb_config, new.lb_ctx, aes,
                    live \cup {p}, okEnc, okDec)
    IN  IF HostStateRefuses(quic, lb_config) THEN same("host_state")
        ELSE IF ~ ConfigIsValid(lb_config) THEN same("invalid")
        ELSE IF p = NULL THEN same("malloc")
        ELSE IF new.s_id64 # U64Zero
        THEN \* free(lb_ctx)
             [ret |-> -1, path |-> "server_id", quic |-> quic,
              ctx_mem |-> Free(Put(ctxs, p, new.lb_ctx), p), aes_mem |-> aes]
        ELSE IF made.ret # 0
        THEN \* free(lb_ctx)
             [ret |-> -1, path |-> made.path, quic |-> quic,
              ctx_mem |-> Free(Put(ctxs, p, made.lb_ctx), p), aes_mem |-> made.aes]
        ELSE \* Configure the CID generation
             [ret |-> 0, path |-> "installed",
              quic |-> [quic EXCEPT
                  !.local_cnxid_length = made.lb_ctx.connection_id_length,
                  !.cnx_id_callback_fn = picoquic_lb_compat_cid_generate_fn,
                  !.cnx_id_callback_ctx = p],
              ctx_mem |-> Put(ctxs, p, made.lb_ctx), aes_mem |-> made.aes]

(***************************************************************************)
(* Release: picoquic_lb_compat_cid_config_free                             *)
(***************************************************************************)

\* the context is freed, its AES handles are not
picoquic_lb_compat_cid_config_free_keep_aes(quic, ctxs, aes) ==
    IF quic.cnx_id_callback_fn = picoquic_lb_compat_cid_generate_fn
       /\ quic.cnx_id_callback_ctx # NULL
    THEN [path |-> "released",
          quic |-> [quic EXCEPT !.cnx_id_callback_fn = NULL_fn,
                                !.cnx_id_callback_ctx = NULL],
          ctx_mem |-> Free(ctxs, quic.cnx_id_callback_ctx), aes_mem |-> aes]
    ELSE [path |-> "noop", quic |-> quic, ctx_mem |-> ctxs, aes_mem |-> aes]

picoquic_lb_compat_cid_config_free(quic, ctxs, aes) ==
    IF quic.cnx_id_callback_fn = picoquic_lb_compat_cid_generate_fn
       /\ quic.cnx_id_callback_ctx # NULL
    THEN LET lb_ctx == ctxs[quic.cnx_id_callback_ctx]
             aes1 == IF lb_ctx.cid_encryption_context # NULL
                     THEN Free(aes, lb_ctx.cid_encryption_context) ELSE aes
             aes2 == IF lb_ctx.cid_decryption_context # NULL
                     THEN Free(aes1, lb_ctx.cid_decryption_context) ELSE aes1
         IN  [path |-> "released",
              quic |-> [quic EXCEPT !.cnx_id_callback_fn = NULL_fn,
                                    !.cnx_id_callback_ctx = NULL],
              ctx_mem |-> Free(ctxs, quic.cnx_id_callback_ctx), aes_mem |-> aes2]
    ELSE [path |-> "noop", quic |-> quic, ctx_mem |-> ctxs, aes_mem |-> aes]

(***************************************************************************)
(* Configuration parser: picoquic_lb_compat_cid_config_parse               *)
(* A text is a sequence of characters; C index i is element i + 1.         *)
(***************************************************************************)

DigitChars == <<"0", "1", "2", "3", "4", "5", "6", "7", "8", "9">>

HexLower == <<"0", "1", "2", "3", "4", "5", "6", "7", "8", "9",
              "a", "b", "c", "d", "e", "f">>

HexUpper == <<"0", "1", "2", "3", "4", "5", "6", "7", "8", "9",
              "A", "B", "C", "D", "E", "F">>

IsDigit(c) == \E d \in 1..10 : DigitChars[d] = c

\* c - '0' for a decimal digit
DigitValue(c) == (CHOOSE d \in 1..10 : DigitChars[d] = c) - 1

\* picoquic_parse_hexa_digit (util.c): the value of a hex digit, -1 for others
picoquic_parse_hexa_digit(c) ==
    IF \E d \in 1..16 : HexLower[d] = c
    THEN (CHOOSE d \in 1..16 : HexLower[d] = c) - 1
    ELSE IF \E d \in 1..16 : HexUpper[d] = c
    THEN (CHOOSE d \in 1..16 : HexUpper[d] = c) - 1
    ELSE -1

\* txt[i]; a read at or past txt_length finds whatever follows the text
CharAt(txt, i, oob) == IF i < Len(txt) THEN txt[i + 1] ELSE oob

\* picoquic_parse_hexa (util.c): the octets of an even, non-empty run of at
\* most 2 * output_max hex digits; the count is 0 for anything else
picoquic_parse_hexa(txt, start, input_length, output_max) ==
    IF input_length > 0 /\ input_length % 2 = 0 /\ 2 * output_max >= input_length
       /\ \A k \in 0..(input_length - 1) :
              picoquic_parse_hexa_digit(txt[start + k + 1]) >= 0
    THEN [n |-> input_length \div 2,
          bin |-> [k \in 0..(input_length \div 2 - 1) |->
                      16 * picoquic_parse_hexa_digit(txt[start + 2 * k + 1])
                      + picoquic_parse_hexa_digit(txt[start + 2 * k + 2])]]
    ELSE [n |-> 0, bin |-> << >>]

\* while (parsed < txt_length && isdigit(txt[parsed])) { acc = 10 * acc + digit;
\*     parsed++; if (acc < 256) field = (uint8_t)acc; else { ret = -1; break; } }
RECURSIVE ParseLength(_, _, _, _, _)
ParseLength(txt, parsed, acc, field, ret) ==
    IF parsed < Len(txt) /\ IsDigit(txt[parsed + 1])
    THEN LET acc1 == 10 * acc + DigitValue(txt[parsed + 1])
         IN  IF acc1 < 256
             THEN ParseLength(txt, parsed + 1, acc1, acc1, ret)
             ELSE [parsed |-> parsed + 1, field |-> field, ret |-> -1]
    ELSE [parsed |-> parsed, field |-> field, ret |-> ret]

\* while (parsed + hex_length < txt_length && txt[parsed + hex_length] != '-')
RECURSIVE HexLength(_, _, _)
HexLength(txt, parsed, hex_length) ==
    IF parsed + hex_length < Len(txt) /\ txt[parsed + hex_length + 1] # "-"
    THEN HexLength(txt, parsed, hex_length + 1)
    ELSE hex_length

\* for (i = 0; i < s_id_len; i++) { server_id64 <<= 8; server_id64 |= s_id_bin[i]; }
RECURSIVE ParsedServerId(_, _, _, _)
ParsedServerId(bin, n, i, s_id64) ==
    IF i >= n THEN s_id64
    ELSE ParsedServerId(bin, n, i + 1, Shl8Add(s_id64, bin[i]))

\* memset(lb_config, 0, sizeof(*lb_config))
ZeroConfig ==
    [method |-> picoquic_load_balancer_cid_clear, rotation_bits |-> 0,
     first_byte_encodes_length |-> 0, connection_id_length |-> 0,
     nonce_length |-> 0, server_id_length |-> 0, server_id64 |-> U64Zero,
     cid_encryption_key |-> [i \in 0..15 |-> 0]]

\* Rotation bits, length flag, CID length, method, nonce length, first hyphen;
\* past: the hyphen test has read txt[parsed] with parsed >= txt_length
ParseHeader(txt, oob) ==
    LET c0 == txt[1]
        c1 == txt[2]
        ret0 == IF c0 \in {"0", "1", "2", "3"} THEN 0 ELSE -1
        rot == IF ret0 = 0 THEN DigitValue(c0) ELSE 0
        fbel == IF c1 \in {"Y", "y"} THEN 1 ELSE 0
        ret1 == IF c1 \notin {"Y", "y", "N", "n"} THEN -1 ELSE ret0
        cid == ParseLength(txt, 2, 0, 0, ret1)
        c == CharAt(txt, cid.parsed, oob)
        m == IF cid.parsed >= Len(txt)
             THEN [parsed |-> cid.parsed, ret |-> -1,
                   method |-> ZeroConfig.method, nonce |-> 0]
             ELSE IF cid.ret # 0
             THEN [parsed |-> cid.parsed, ret |-> cid.ret,
                   method |-> ZeroConfig.method, nonce |-> 0]
             ELSE IF c \in {"c", "C"}
             THEN [parsed |-> cid.parsed + 1, ret |-> 0,
                   method |-> picoquic_load_balancer_cid_clear, nonce |-> 0]
             ELSE IF c \in {"s", "S"}
             THEN LET n == ParseLength(txt, cid.parsed + 1, 0, 0, 0)
                  IN  [parsed |-> n.parsed, ret |-> n.ret,
                       method |-> picoquic_load_balancer_cid_stream_cipher,
                       nonce |-> n.field]
             ELSE IF c \in {"b", "B"}
             THEN [parsed |-> cid.parsed + 1, ret |-> 0,
                   method |-> picoquic_load_balancer_cid_block_cipher, nonce |-> 0]
             ELSE [parsed |-> cid.parsed + 1, ret |-> -1,
                   method |-> ZeroConfig.method, nonce |-> 0]
        hyphen == CharAt(txt, m.parsed, oob) = "-"
    IN  [parsed |-> IF hyphen THEN m.parsed + 1 ELSE m.parsed,
         ret |-> IF hyphen THEN m.ret ELSE -1,
         past |-> m.parsed >= Len(txt),
         lb_config |-> [ZeroConfig EXCEPT !.rotation_bits = rot,
                                          !.first_byte_encodes_length = fbel,
                                          !.connection_id_length = cid.field,
                                          !.method = m.method,
                                          !.nonce_length = m.nonce]]

\* Server ID as a hex string: a bad server ID makes ret 1
ParseServerId(txt, h) ==
    IF Len(txt) <= h.parsed THEN [h EXCEPT !.ret = -1]
    ELSE IF h.ret # 0 THEN h
    ELSE LET hex_length == HexLength(txt, h.parsed, 0)
             sid == picoquic_parse_hexa(txt, h.parsed, hex_length, 8)
         IN  IF sid.n = 0 \/ sid.n > 255
             THEN [h EXCEPT !.ret = 1]
             ELSE [parsed |-> h.parsed + 2 * sid.n, ret |-> 0, past |-> h.past,
                   lb_config |-> [h.lb_config EXCEPT
                       !.server_id_length = sid.n,
                       !.server_id64 = ParsedServerId(sid.bin, sid.n, 0, U64Zero)]]

\* Second hyphen and the key, for the stream and block ciphers
ParseKey(txt, s, oob) ==
    IF s.ret = 0 /\ s.lb_config.method \in {picoquic_load_balancer_cid_stream_cipher,
                                            picoquic_load_balancer_cid_block_cipher}
    THEN LET past == s.past \/ s.parsed >= Len(txt)
         IN  IF CharAt(txt, s.parsed, oob) # "-" THEN [s EXCEPT !.ret = -1, !.past = past]
             ELSE LET parsed == s.parsed + 1
                      key == picoquic_parse_hexa(txt, parsed, Len(txt) - parsed, 16)
                  IN  IF Len(txt) < parsed + 32
                      THEN [s EXCEPT !.parsed = parsed, !.ret = -1, !.past = past]
                      ELSE IF key.n # 16
                      THEN [s EXCEPT !.parsed = parsed + 2 * key.n, !.ret = -1,
                                     !.past = past]
                      ELSE [parsed |-> parsed + 2 * key.n, ret |-> 0, past |-> past,
                            lb_config |-> [s.lb_config EXCEPT
                                !.cid_encryption_key = key.bin]]
    ELSE s

\* the block cipher's minimum of 17 octets is not tested
LengthsRejected_no_block_test(lb_config) ==
    /\ lb_config.connection_id_length # 0
    /\ lb_config.connection_id_length
           < 1 + lb_config.server_id_length + lb_config.nonce_length

\* The final test on the lengths; TRUE: reject
LengthsRejected(lb_config) ==
    /\ lb_config.connection_id_length # 0
    /\ LET min_length == 1 + lb_config.server_id_length + lb_config.nonce_length
       IN  \/ lb_config.connection_id_length < min_length
           \/ /\ lb_config.method = picoquic_load_balancer_cid_block_cipher
              /\ lb_config.connection_id_length < 17

\* The whole call: the return value, the configuration record it leaves, and
\* whether it has read at or past txt_length
picoquic_lb_compat_cid_config_parse(txt, oob) ==
    LET h == IF Len(txt) < 4
             THEN [parsed |-> 0, ret |-> -1, past |-> FALSE, lb_config |-> ZeroConfig]
             ELSE ParseHeader(txt, oob)
        s == ParseServerId(txt, h)
        k == ParseKey(txt, s, oob)
        ret4 == IF k.ret = 0 /\ k.parsed # Len(txt) THEN -1 ELSE k.ret
        ret5 == IF ret4 = 0 /\ LengthsRejected(k.lb_config) THEN -1 ELSE ret4
    IN  [ret |-> ret5, lb_config |-> k.lb_config, past |-> k.past]

(***************************************************************************)
(* Inputs                                                                  *)
(***************************************************************************)

\* number of AES keys the configurations draw from
MaxKeys == 1

\* prefilled CID buffers draw their octets from patterns 0..MaxFill
MaxFill == 3

Key(k) == [i \in 0..15 |-> (16 * k + 7 * i + 1) % 256]

\* octet i of pattern k: all zero (k = 0), all 0xFF (k = 3), varying otherwise
FillOctet(k, i) == (85 * k + 16 * (k % 3) * i) % 256

FirstOctetSamples == {165, 255}

CidLenSamples == {9, 11, 17}

\* a connection ID of len octets; the octets past len are zero
CnxId(len, first, k) ==
    [id_len |-> len,
     id |-> [i \in 0..(PICOQUIC_CONNECTION_ID_MAX_SIZE - 1) |->
                IF i >= len THEN 0 ELSE IF i = 0 THEN first ELSE FillOctet(k, i)]]

ServerIdSamples ==
    {U64(0, 0, 0, 0, 0, 0, 0, 42), U64(0, 0, 0, 0, 0, 0, 18, 52),
     U64(1, 2, 3, 4, 5, 6, 7, 8), UINT64_MAX}

LbConfig(m, rot, fbel, cl, nl, sl, s, k) ==
    [method |-> m, rotation_bits |-> rot, first_byte_encodes_length |-> fbel,
     connection_id_length |-> cl, nonce_length |-> nl, server_id_length |-> sl,
     server_id64 |-> s, cid_encryption_key |-> Key(k)]

\* configuration records handed to the installation, valid and not
ConfigSamples ==
    {LbConfig(picoquic_load_balancer_cid_clear, rot, fbel, cl, 0, sl, s, 1) :
        rot \in {1, 3}, fbel \in {0, 1}, cl \in {0, 5, 20, 21}, sl \in {1, 8, 16},
        s \in ServerIdSamples}
    \cup
    {LbConfig(picoquic_load_balancer_cid_stream_cipher, rot, fbel, cl, nl, sl, s, k) :
        rot \in {0, 2}, fbel \in {0, 1}, cl \in {10, 20}, nl \in {7, 8, 16, 17},
        sl \in {1, 11}, s \in ServerIdSamples, k \in 1..MaxKeys}
    \cup
    {LbConfig(picoquic_load_balancer_cid_block_cipher, rot, fbel, cl, 0, sl, s, k) :
        rot \in {0, 3}, fbel \in {0, 1}, cl \in {10, 17, 20}, sl \in {2, 8, 16},
        s \in ServerIdSamples, k \in 1..MaxKeys}
    \cup
    {LbConfig("unknown", 0, 0, 10, 0, 1, U64(0, 0, 0, 0, 0, 0, 0, 42), 1)}

\* a run of n hex digits
HexRun(n) == [i \in 1..n |-> HexLower[((7 * i) % 16) + 1]]

\* configuration texts, well formed and not, built field by field
TxtSamples ==
    {rot \o flag \o cl \o m \o h \o sid \o tail :
        rot \in {<<"3">>, <<"4">>},
        flag \in {<<"Y">>, <<"n">>, <<"x">>},
        cl \in {<< >>, <<"5">>, <<"1", "7">>, <<"2", "5">>, <<"2", "5", "6">>},
        m \in {<<"C">>, <<"s", "8">>, <<"S", "2">>, <<"S", "9", "9", "9">>,
               <<"B">>, <<"X">>, << >>},
        h \in {<<"-">>, << >>},
        sid \in {<< >>, <<"2", "a">>, <<"1", "2", "3", "4">>, <<"z", "z">>,
                 <<"1">>, HexRun(16), HexRun(18)},
        tail \in {<< >>, <<"-">> \o HexRun(32), <<"-">> \o HexRun(30),
                  <<"-">> \o HexRun(32) \o <<"0">>,
                  <<"-">> \o HexRun(31) \o <<"g">>, <<"x">>, HexRun(32)}}

\* what a read just past the text may find: the terminator, or anything else
OobChars == {"NUL", "-", "7"}

\* records built directly, with a server ID of no octets
EmptyServerIdSamples ==
    {LbConfig(picoquic_load_balancer_cid_clear, 0, 0, 5, 0, 0, s, 1) :
        s \in {U64Zero, U64(0, 0, 0, 0, 0, 0, 0, 42)}}
    \cup
    {LbConfig(picoquic_load_balancer_cid_block_cipher, 0, 0, 17, 0, 0, U64Zero, 1)}

\* the configurations the life cycle is run with: those of ConfigSamples
\* with one setting of the first octet
InstallSamples ==
    {c \in ConfigSamples : c.first_byte_encodes_length = 0 /\ c.rotation_bits < 2}
    \cup EmptyServerIdSamples

(***************************************************************************)
(* State                                                                   *)
(***************************************************************************)

VARIABLES
    quic,       \* the QUIC context: cnx_list # NULL, local_cnxid_length, callback
    ctx_mem,    \* live load balancer contexts, by address
    aes_mem,    \* live AES handles, by address
    cnx_id,     \* the connection ID buffer of the caller
    generated,  \* cnx_id is the output of generate under the installed context
    op,         \* the last operation
    path,       \* the path it took
    ret,        \* the status returned by the last installation
    server_id64, \* the value returned by the last verification
    txt,        \* the configuration text handed to the parser
    lb_config,  \* the configuration record the parser fills
    parse_ret,  \* the status returned by the parser
    pc,         \* the position of the installation in progress, "idle" without one
    lb_ctx      \* the context that the installation in progress has allocated

vars == <<quic, ctx_mem, aes_mem, cnx_id, generated, op, path, ret, server_id64,
          txt, lb_config, parse_ret, pc, lb_ctx>>

codec_vars == <<quic, ctx_mem, aes_mem, cnx_id, generated, path, ret, server_id64>>

parse_vars == <<txt, lb_config, parse_ret>>

install_vars == <<pc, lb_ctx>>

\* the default CID length of a QUIC context and another one in use
HostCidLenSamples == {8, 10}

Installed ==
    /\ quic.cnx_id_callback_fn = picoquic_lb_compat_cid_generate_fn
    /\ quic.cnx_id_callback_ctx \in DOMAIN ctx_mem

InstalledCtx == ctx_mem[quic.cnx_id_callback_ctx]

HostSamples ==
    {[cnx_list |-> has_cnx, local_cnxid_length |-> len,
      cnx_id_callback_fn |-> cb[1], cnx_id_callback_ctx |-> cb[2]] :
        has_cnx \in BOOLEAN, len \in HostCidLenSamples,
        cb \in {<<NULL_fn, NULL>>, <<other_cnx_id_callback_fn, OtherCbData>>,
                <<other_cnx_id_callback_fn, NULL>>}}

\* A QUIC context as created: no load balancer context, any callback of its own
Init ==
    /\ quic \in HostSamples
    /\ ctx_mem = << >>
    /\ aes_mem = << >>
    /\ cnx_id = CnxId(quic.local_cnxid_length, 0, 0)
    /\ generated = FALSE
    /\ op = "init"
    /\ path = "none"
    /\ ret = 0
    /\ server_id64 = U64Zero
    /\ txt = << >>
    /\ lb_config = ZeroConfig
    /\ parse_ret = 0
    /\ pc = "idle"
    /\ lb_ctx = NULL

\* A QUIC context without connections or callback on which a configuration
\* has just been installed
InitCodec ==
    \E host \in HostSamples, config \in ConfigSamples :
        LET r == picoquic_lb_compat_cid_config(host, << >>, << >>, config,
                     TRUE, TRUE, TRUE)
        IN  /\ ~ host.cnx_list
            /\ host.cnx_id_callback_fn = NULL_fn
            /\ r.ret = 0
            /\ quic = r.quic
            /\ ctx_mem = r.ctx_mem
            /\ aes_mem = r.aes_mem
            /\ cnx_id = CnxId(r.quic.local_cnxid_length, 0, 0)
            /\ generated = FALSE
            /\ op = "install"
            /\ path = r.path
            /\ ret = r.ret
            /\ server_id64 = U64Zero
            /\ txt = << >>
            /\ lb_config = ZeroConfig
            /\ parse_ret = 0
            /\ pc = "idle"
            /\ lb_ctx = NULL

\* install(host, config)
Install ==
    \E config \in InstallSamples, okCtx \in BOOLEAN, okEnc \in BOOLEAN, okDec \in BOOLEAN :
        LET r == picoquic_lb_compat_cid_config(quic, ctx_mem, aes_mem, config,
                     okCtx, okEnc, okDec)
        IN  /\ quic' = r.quic
            /\ ctx_mem' = r.ctx_mem
            /\ aes_mem' = r.aes_mem
            /\ op' = "install"
            /\ path' = r.path
            /\ ret' = r.ret
            /\ generated' = FALSE
            /\ server_id64' = U64Zero
            /\ UNCHANGED <<cnx_id, parse_vars, install_vars>>

\* uninstall(host)
Uninstall ==
    LET r == picoquic_lb_compat_cid_config_free(quic, ctx_mem, aes_mem)
    IN  /\ quic' = r.quic
        /\ ctx_mem' = r.ctx_mem
        /\ aes_mem' = r.aes_mem
        /\ op' = "uninstall"
        /\ path' = r.path
        /\ ret' = 0
        /\ generated' = FALSE
        /\ server_id64' = U64Zero
        /\ UNCHANGED <<cnx_id, parse_vars, install_vars>>

\* The host prefills a buffer of its CID length, or receives a CID of any
\* length from the network.
SetCnxId ==
    \E len \in CidLenSamples \cup {quic.local_cnxid_length},
       first \in FirstOctetSamples, k \in 0..MaxFill :
        /\ cnx_id' = CnxId(len, first, k)
        /\ generated' = FALSE
        /\ op' = "set_cnx_id"
        /\ path' = "none"
        /\ ret' = 0
        /\ server_id64' = U64Zero
        /\ UNCHANGED <<quic, ctx_mem, aes_mem, parse_vars, install_vars>>

\* The host calls its CID generation callback on a buffer of its CID length.
Generate ==
    /\ Installed
    /\ cnx_id.id_len = quic.local_cnxid_length
    /\ cnx_id' = picoquic_lb_compat_cid_generate(quic, InstalledCtx, aes_mem, cnx_id)
    /\ generated' = TRUE
    /\ op' = "generate"
    /\ path' = "none"
    /\ ret' = 0
    /\ server_id64' = U64Zero
    /\ UNCHANGED <<quic, ctx_mem, aes_mem, parse_vars, install_vars>>

\* The host asks for the server ID of the CID in the buffer.
Verify ==
    /\ Installed
    /\ server_id64' = picoquic_lb_compat_cid_verify(InstalledCtx, aes_mem, cnx_id)
    /\ op' = "verify"
    /\ path' = "none"
    /\ ret' = 0
    /\ UNCHANGED <<quic, ctx_mem, aes_mem, cnx_id, generated, parse_vars,
                   install_vars>>

\* The parser is handed a text
InitParse ==
    /\ txt \in TxtSamples
    /\ lb_config = ZeroConfig
    /\ parse_ret = 0
    /\ op = "init"
    /\ quic = CHOOSE h \in HostSamples : ~ h.cnx_list /\ h.cnx_id_callback_fn = NULL_fn
    /\ ctx_mem = << >>
    /\ aes_mem = << >>
    /\ cnx_id = CnxId(quic.local_cnxid_length, 0, 0)
    /\ generated = FALSE
    /\ path = "none"
    /\ ret = 0
    /\ server_id64 = U64Zero
    /\ pc = "idle"
    /\ lb_ctx = NULL

\* parse(txt)
Parse ==
    \E oob \in OobChars :
        LET r == picoquic_lb_compat_cid_config_parse(txt, oob)
        IN  /\ lb_config' = r.lb_config
            /\ parse_ret' = r.ret
            /\ op' = "parse"
            /\ UNCHANGED <<txt, codec_vars, install_vars>>

\* install(host, config) with the record that the parser has just filled
InstallParsed ==
    /\ op = "parse"
    /\ parse_ret = 0
    /\ \E okCtx \in BOOLEAN, okEnc \in BOOLEAN, okDec \in BOOLEAN :
           LET r == picoquic_lb_compat_cid_config(quic, ctx_mem, aes_mem, lb_config,
                        okCtx, okEnc, okDec)
           IN  /\ quic' = r.quic
               /\ ctx_mem' = r.ctx_mem
               /\ aes_mem' = r.aes_mem
               /\ op' = "install"
               /\ path' = r.path
               /\ ret' = r.ret
               /\ generated' = FALSE
               /\ server_id64' = U64Zero
               /\ UNCHANGED <<cnx_id, parse_vars, install_vars>>

\* The context after memset and the copy of the fields of the configuration
CopiedContext(config) ==
    [NewContext(config).lb_ctx EXCEPT !.server_id = [j \in 0..(ServerIdSize - 1) |-> 0]]

\* if (ret != 0) { free(lb_ctx); lb_ctx = NULL; } ... return ret;
InstallFails(ctxs, failure) ==
    /\ ctx_mem' = ctxs
    /\ lb_ctx' = NULL
    /\ pc' = "idle"
    /\ op' = "install"
    /\ path' = failure
    /\ ret' = -1

\* install, first step: the tests on the QUIC context and on the
\* configuration, and the allocation of the context with the copy of the fields
InstallEnter ==
    /\ pc = "idle"
    /\ \E config \in InstallSamples, okCtx \in BOOLEAN :
           LET p == Alloc(DOMAIN ctx_mem \cup DOMAIN aes_mem, okCtx)
               failure == IF HostStateRefuses(quic, config) THEN "host_state"
                          ELSE IF ~ ConfigIsValid(config) THEN "invalid"
                          ELSE IF p = NULL THEN "malloc"
                          ELSE "none"
           IN  /\ lb_config' = config
               /\ IF failure # "none"
                  THEN InstallFails(ctx_mem, failure)
                  ELSE /\ ctx_mem' = Put(ctx_mem, p, CopiedContext(config))
                       /\ lb_ctx' = p
                       /\ pc' = "serialize"
                       /\ UNCHANGED <<op, path, ret>>
    /\ UNCHANGED <<quic, aes_mem, cnx_id, generated, server_id64, txt, parse_ret>>

\* install, second step: the server ID bytes, and the test that the value fits
InstallSerialize ==
    /\ pc = "serialize"
    /\ LET c == ctx_mem[lb_ctx]
           ser == SerializeServerId(c.server_id_length, 0, c.server_id64, c.server_id)
       IN  IF ser.s_id64 # U64Zero
           THEN InstallFails(Free(ctx_mem, lb_ctx), "server_id")
           ELSE /\ ctx_mem' = [ctx_mem EXCEPT ![lb_ctx].server_id = ser.server_id]
                /\ pc' = "create_contexts"
                /\ UNCHANGED <<lb_ctx, op, path, ret>>
    /\ UNCHANGED <<quic, aes_mem, cnx_id, generated, server_id64, parse_vars>>

\* install, third step: the AES handles that the method needs
InstallCreateContexts ==
    /\ pc = "create_contexts"
    /\ \E okEnc \in BOOLEAN, okDec \in BOOLEAN :
           LET made == CreateEncryptionContexts(lb_config, ctx_mem[lb_ctx], aes_mem,
                           DOMAIN ctx_mem \cup DOMAIN aes_mem, okEnc, okDec)
           IN  /\ aes_mem' = made.aes
               /\ IF made.ret # 0
                  THEN InstallFails(Free(ctx_mem, lb_ctx), made.path)
                  ELSE /\ ctx_mem' = [ctx_mem EXCEPT ![lb_ctx] = made.lb_ctx]
                       /\ pc' = "publish_length"
                       /\ UNCHANGED <<lb_ctx, op, path, ret>>
    /\ UNCHANGED <<quic, cnx_id, generated, server_id64, parse_vars>>

\* quic->local_cnxid_length = lb_ctx->connection_id_length;
InstallPublishLength ==
    /\ pc = "publish_length"
    /\ quic' = [quic EXCEPT !.local_cnxid_length = ctx_mem[lb_ctx].connection_id_length]
    /\ pc' = "publish_fn"
    /\ UNCHANGED <<ctx_mem, aes_mem, cnx_id, generated, op, path, ret, server_id64,
                   parse_vars, lb_ctx>>

\* quic->cnx_id_callback_fn = picoquic_lb_compat_cid_generate;
InstallPublishFn ==
    /\ pc = "publish_fn"
    /\ quic' = [quic EXCEPT !.cnx_id_callback_fn = picoquic_lb_compat_cid_generate_fn]
    /\ pc' = "publish_ctx"
    /\ UNCHANGED <<ctx_mem, aes_mem, cnx_id, generated, op, path, ret, server_id64,
                   parse_vars, lb_ctx>>

\* quic->cnx_id_callback_ctx = (void*)lb_ctx; ... return ret;
InstallPublishCtx ==
    /\ pc = "publish_ctx"
    /\ quic' = [quic EXCEPT !.cnx_id_callback_ctx = lb_ctx]
    /\ pc' = "idle"
    /\ lb_ctx' = NULL
    /\ op' = "install"
    /\ path' = "installed"
    /\ ret' = 0
    /\ UNCHANGED <<ctx_mem, aes_mem, cnx_id, generated, server_id64, parse_vars>>

\* the context has its server ID bytes and the AES handles of its method
FullyInitialised(c, aes) ==
    /\ c.server_id = NewContext(c).lb_ctx.server_id
    /\ c.method \in {picoquic_load_balancer_cid_stream_cipher,
                      picoquic_load_balancer_cid_block_cipher}
           => c.cid_encryption_context \in DOMAIN aes
    /\ c.method = picoquic_load_balancer_cid_block_cipher
           => c.cid_decryption_context \in DOMAIN aes

\* Another thread of the host, about to generate or verify a connection ID,
\* reads the callback and its data from the QUIC context.
Read ==
    /\ op' = "read"
    /\ path' = IF quic.cnx_id_callback_fn # picoquic_lb_compat_cid_generate_fn
               THEN "no_codec"
               ELSE IF quic.cnx_id_callback_ctx \notin DOMAIN ctx_mem
               THEN "missing_context"
               ELSE IF FullyInitialised(ctx_mem[quic.cnx_id_callback_ctx], aes_mem)
               THEN "codec"
               ELSE "partial_context"
    /\ UNCHANGED <<quic, ctx_mem, aes_mem, cnx_id, generated, ret, server_id64,
                   parse_vars, install_vars>>

\* Life cycle of the load balancer context on a QUIC context
Next == Install \/ Uninstall

Spec == Init /\ [][Next]_vars

\* Generation and verification with an installed context
NextCodec == SetCnxId \/ Generate \/ Verify

SpecCodec == InitCodec /\ [][NextCodec]_vars

\* One installation, statement by statement, with a reader of the QUIC context
NextInstallSteps ==
    \/ InstallEnter \/ InstallSerialize \/ InstallCreateContexts
    \/ InstallPublishLength \/ InstallPublishFn \/ InstallPublishCtx
    \/ Read

SpecInstallSteps == Init /\ [][NextInstallSteps]_vars

\* Parsing of configuration texts
NextParse == Parse \/ InstallParsed

SpecParse == InitParse /\ [][NextParse]_vars

(***************************************************************************)
(* Properties                                                              *)
(***************************************************************************)

KnownMethods ==
    {picoquic_load_balancer_cid_clear, picoquic_load_balancer_cid_stream_cipher,
     picoquic_load_balancer_cid_block_cipher}

\* C1: verifying the CID that generate produced under the installed context
\* returns the server ID value of the installed configuration.
C1_RoundTrip ==
    (op = "verify" /\ generated) => server_id64 = InstalledCtx.server_id64

C1_Witness ==
    /\ op = "verify"
    /\ generated
    /\ InstalledCtx.method = picoquic_load_balancer_cid_stream_cipher
    /\ InstalledCtx.server_id_length = 11
    /\ server_id64 = U64(1, 2, 3, 4, 5, 6, 7, 8)

\* C2: verify returns UINT64_MAX if and only if the length of the CID differs
\* from the configured one or the method is unknown.
C2_SentinelIffMismatch ==
    op = "verify" =>
        (server_id64 = UINT64_MAX
            <=> (\/ cnx_id.id_len # InstalledCtx.connection_id_length
                 \/ InstalledCtx.method \notin KnownMethods))

\* C3: a generate step leaves in octet 0 the rotation bits above the length
\* minus one (length encoded) or above the six low bits the caller supplied.
C3_FirstOctet ==
    [][op' = "generate" =>
        /\ cnx_id'.id[0] =
               IF InstalledCtx.first_byte_encodes_length = 1
               THEN 64 * InstalledCtx.rotation_bits
                    + (InstalledCtx.connection_id_length - 1)
               ELSE 64 * InstalledCtx.rotation_bits + (cnx_id.id[0] % 64)
        /\ cnx_id'.id[0] \div 64 = InstalledCtx.rotation_bits]_vars

C3_Witness ==
    /\ op = "generate"
    /\ InstalledCtx.first_byte_encodes_length = 0
    /\ InstalledCtx.rotation_bits = 1
    /\ cnx_id.id[0] = 64 + 63

FirstOctetAlternatives == {0, 63, 64, 255}

\* C4: verify returns the same value for CIDs that differ only in octet 0.
C4_FirstOctetNotInspected ==
    Installed =>
        \A first \in FirstOctetAlternatives :
            picoquic_lb_compat_cid_verify(InstalledCtx, aes_mem,
                [cnx_id EXCEPT !.id[0] = first])
            = picoquic_lb_compat_cid_verify(InstalledCtx, aes_mem, cnx_id)

C4_Witness ==
    /\ op = "verify"
    /\ cnx_id.id[0] = 255
    /\ cnx_id.id_len = InstalledCtx.connection_id_length
    /\ InstalledCtx.method = picoquic_load_balancer_cid_clear
    /\ server_id64 = picoquic_lb_compat_cid_verify(InstalledCtx, aes_mem,
                         [cnx_id EXCEPT !.id[0] = 0])

\* C5: install fails when the QUIC context has connections and another CID
\* length than the configuration (a successful install sets the length of the
\* context to that of the configuration, so it must leave it as it was), or
\* when another CID generation callback is registered.
C5_InstallRefuses ==
    [][(op' = "install" /\ ret' = 0) =>
        /\ quic.cnx_id_callback_fn # other_cnx_id_callback_fn
        /\ quic.cnx_list => quic'.local_cnxid_length = quic.local_cnxid_length]_vars

\* C6: a failed install leaves the QUIC context and the heap as they were.
C6_FailedInstallLeavesNothing ==
    [][(op' = "install" /\ ret' # 0) =>
        /\ quic' = quic
        /\ ctx_mem' = ctx_mem
        /\ aes_mem' = aes_mem]_vars

C6_Witness ==
    /\ op = "install"
    /\ ret = -1
    /\ path = "dec_create"
    /\ DOMAIN ctx_mem = {}
    /\ DOMAIN aes_mem = {}

\* C7: the installed context holds an encryption handle exactly for the stream
\* and block ciphers, and a decryption handle exactly for the block cipher.
C7_HandlesMatchMethod ==
    Installed =>
        /\ (InstalledCtx.cid_encryption_context \in DOMAIN aes_mem
               <=> InstalledCtx.method \in {picoquic_load_balancer_cid_stream_cipher,
                                            picoquic_load_balancer_cid_block_cipher})
        /\ (InstalledCtx.cid_decryption_context \in DOMAIN aes_mem
               <=> InstalledCtx.method = picoquic_load_balancer_cid_block_cipher)
        /\ InstalledCtx.cid_encryption_context \in DOMAIN aes_mem \cup {NULL}
        /\ InstalledCtx.cid_decryption_context \in DOMAIN aes_mem \cup {NULL}

C7_Witness ==
    /\ Installed
    /\ InstalledCtx.method = picoquic_load_balancer_cid_stream_cipher
    /\ InstalledCtx.cid_encryption_context \in DOMAIN aes_mem
    /\ InstalledCtx.cid_decryption_context = NULL

\* C8: uninstall changes nothing when the callback of the QUIC context is not
\* the generator of this codec; when it is, the AES handles of the context
\* and the context are freed and both callback pointers are cleared.
C8_Uninstall ==
    [][op' = "uninstall" =>
        IF quic.cnx_id_callback_fn = picoquic_lb_compat_cid_generate_fn
        THEN /\ quic'.cnx_id_callback_fn = NULL_fn
             /\ quic'.cnx_id_callback_ctx = NULL
             /\ quic.cnx_id_callback_ctx \notin DOMAIN ctx_mem'
             /\ \A h \in {InstalledCtx.cid_encryption_context,
                          InstalledCtx.cid_decryption_context} \ {NULL} :
                    h \in DOMAIN aes_mem /\ h \notin DOMAIN aes_mem'
        ELSE /\ quic' = quic
             /\ ctx_mem' = ctx_mem
             /\ aes_mem' = aes_mem]_vars

C8_Witness ==
    /\ op = "uninstall"
    /\ path = "released"
    /\ quic.cnx_id_callback_fn = NULL_fn
    /\ quic.cnx_id_callback_ctx = NULL
    /\ DOMAIN ctx_mem = {}
    /\ DOMAIN aes_mem = {}

\* C9 as stated: every configuration the parser returns satisfies all the
\* length invariants of the data model (a CID length of 0, which stands for
\* the length of the QUIC context, is left aside).
C9_ParserEnforcesAllLengths ==
    (op = "parse" /\ parse_ret = 0 /\ lb_config.connection_id_length # 0) =>
        /\ lb_config.connection_id_length <= PICOQUIC_CONNECTION_ID_MAX_SIZE
        /\ lb_config.method = picoquic_load_balancer_cid_clear =>
               lb_config.connection_id_length >= 1 + lb_config.server_id_length
        /\ lb_config.method = picoquic_load_balancer_cid_stream_cipher =>
               /\ lb_config.nonce_length \in 8..16
               /\ lb_config.connection_id_length
                      >= 1 + lb_config.nonce_length + lb_config.server_id_length
        /\ lb_config.method = picoquic_load_balancer_cid_block_cipher =>
               /\ lb_config.connection_id_length >= 17
               /\ lb_config.server_id_length <= 15

\* C9 as amended: a configuration the parser returns with a CID length other
\* than 0 has room for the first octet, the nonce and the server ID, and 17
\* octets or more for the block cipher; its server ID has 1 to 8 octets.
C9_ParserLengthChecks ==
    (op = "parse" /\ parse_ret = 0) =>
        /\ lb_config.server_id_length \in 1..8
        /\ lb_config.connection_id_length # 0 =>
               /\ lb_config.connection_id_length
                      >= 1 + lb_config.nonce_length + lb_config.server_id_length
               /\ lb_config.method = picoquic_load_balancer_cid_block_cipher =>
                      lb_config.connection_id_length >= 17

C9_Witness ==
    /\ op = "parse"
    /\ parse_ret = 0
    /\ lb_config.method = picoquic_load_balancer_cid_block_cipher
    /\ lb_config.connection_id_length = 17
    /\ lb_config.server_id_length = 2

\* C10: every rejected text makes the parser return the same failure value.
C10_FlatErrors ==
    (op = "parse" /\ parse_ret # 0) => parse_ret = -1

AllocationFailures == {"malloc", "enc_create", "dec_create"}

\* C11: a text without CID length parses to a record with a CID length of 0,
\* and installing that record, allocations permitting, succeeds with the CID
\* length of the QUIC context in the load balancer context and the length of
\* the QUIC context as it was.
C11_InheritFromHost ==
    [][(/\ op = "parse" /\ parse_ret = 0 /\ ~ IsDigit(txt[3])
        /\ op' = "install" /\ path' \notin AllocationFailures)
       => /\ lb_config.connection_id_length = 0
          /\ ret' = 0
          /\ quic'.local_cnxid_length = quic.local_cnxid_length
          /\ ctx_mem'[quic'.cnx_id_callback_ctx].connection_id_length
                 = quic.local_cnxid_length]_vars

\* C12: a reader of the QUIC context, at any point of an installation, finds
\* either no callback of this codec or the callback together with a context
\* that is allocated and fully initialised.
C12_ReaderSeesWholeContext ==
    [][(/\ op' = "read" /\ UNCHANGED <<quic, ctx_mem, aes_mem, install_vars>>
        /\ quic.cnx_id_callback_fn = picoquic_lb_compat_cid_generate_fn)
       => /\ path' = "codec"
          /\ quic.cnx_id_callback_ctx \in DOMAIN ctx_mem
          /\ FullyInitialised(ctx_mem[quic.cnx_id_callback_ctx], aes_mem)]_vars

\* the last octet that generate may write under the method of the context
LastOwnedOctet(c) ==
    CASE c.method = picoquic_load_balancer_cid_clear -> c.server_id_length
      [] c.method = picoquic_load_balancer_cid_stream_cipher ->
             c.nonce_length + c.server_id_length
      [] c.method = picoquic_load_balancer_cid_block_cipher -> 16

\* C13: a generate step leaves the length of the CID, every octet after the
\* region of the method, the installed context, its AES handles and the QUIC
\* context as they were.
C13_GenerateFrame ==
    [][op' = "generate" =>
        /\ cnx_id'.id_len = cnx_id.id_len
        /\ \A i \in (LastOwnedOctet(InstalledCtx) + 1)..(PICOQUIC_CONNECTION_ID_MAX_SIZE - 1) :
               cnx_id'.id[i] = cnx_id.id[i]
        /\ ctx_mem' = ctx_mem
        /\ aes_mem' = aes_mem
        /\ quic' = quic]_vars

C13_Witness ==
    /\ op = "generate"
    /\ InstalledCtx.method = picoquic_load_balancer_cid_block_cipher
    /\ cnx_id.id_len = 20
    /\ cnx_id.id[17] = FillOctet(2, 17)
    /\ cnx_id.id[19] = FillOctet(2, 19)
    /\ cnx_id.id[19] # 0
    /\ cnx_id.id[1] # FillOctet(2, 1)

\* octet j of the big-endian form of a 64 bit value in len octets
BigEndianOctet(value, len, j) == IF len - j > 8 THEN 0 ELSE value[8 - (len - j) + 1]

\* C14: an installed context has a server ID of 1 to 16 octets, a value that
\* fits in them, and the big-endian octets of that value as server ID bytes.
C14_InstallValidatesServerId ==
    Installed =>
        /\ InstalledCtx.server_id_length \in 1..ServerIdSize
        /\ \A n \in 1..8 : n <= 8 - InstalledCtx.server_id_length
                                => InstalledCtx.server_id64[n] = 0
        /\ \A j \in 0..(InstalledCtx.server_id_length - 1) :
               InstalledCtx.server_id[j]
                   = BigEndianOctet(InstalledCtx.server_id64,
                                    InstalledCtx.server_id_length, j)

\* C15: after any sequence of install and uninstall calls the live contexts
\* are the one that the QUIC context refers to when the codec is installed
\* and none otherwise, the live AES handles are those of that context, and
\* nothing has been freed twice.
C15_SingleOwner ==
    /\ NULL \notin DOMAIN ctx_mem \cup DOMAIN aes_mem
    /\ IF quic.cnx_id_callback_fn = picoquic_lb_compat_cid_generate_fn
       THEN /\ DOMAIN ctx_mem = {quic.cnx_id_callback_ctx}
            /\ DOMAIN aes_mem = {InstalledCtx.cid_encryption_context,
                                 InstalledCtx.cid_decryption_context} \ {NULL}
       ELSE /\ DOMAIN ctx_mem = {}
            /\ DOMAIN aes_mem = {}

C15_Witness ==
    /\ op = "install"
    /\ path = "host_state"
    /\ Installed
    /\ InstalledCtx.method = picoquic_load_balancer_cid_block_cipher
    /\ Cardinality(DOMAIN aes_mem) = 2

\* C16: whatever the text, accepted or not, and whatever follows it in
\* memory, the parser reads no character at or past txt_length.
C16_ReadsWithinText ==
    op = "parse" =>
        \A oob \in OobChars : ~ picoquic_lb_compat_cid_config_parse(txt, oob).past

====
